---- MODULE Spec2Model ----
(***************************************************************************)
(* Model of mergekit/plan.py: the MergePlanner class, which compiles a     *)
(* merge configuration into an ordered list of tasks.                      *)
(*                                                                         *)
(* Python objects are records.  The class attribute MergePlanner._tasks    *)
(* (one list object shared by every instance that has not rebound the      *)
(* attribute) is the variable cls; an instance's own attributes are the    *)
(* record inst[p].  A raised exception is the field err of the threaded    *)
(* evaluation record: once it is set every later statement is skipped.     *)
(***************************************************************************)
EXTENDS Integers, Sequences, FiniteSets, TLC

VARIABLES
    cls,      \* the list object bound to the class attribute MergePlanner._tasks
    inst,     \* planner -> the instance's attributes
    calls,    \* number of method calls made so far (gives each call an identity)
    last      \* record of the most recent method call: outcome and call trace

vars == <<cls, inst, calls, last>>

None == "None"

Planners == {"P1", "P2"}

(* Bounds of the model *)
MaxLayers == 3          \* layer count of the deepest source model
MaxCalls == 2           \* method calls made on the planners in one behaviour
MaxPre == 1             \* the architecture declares 0..MaxPre pre weights
LayerWeightCount == 2   \* weights the architecture declares per layer

(***************************************************************************)
(* Sequence helpers                                                        *)
(***************************************************************************)
Range(s) == {s[i] : i \in DOMAIN s}

RECURSIVE SumSeq(_)
SumSeq(s) == IF s = <<>> THEN 0 ELSE Head(s) + SumSeq(Tail(s))

(***************************************************************************)
(* Architecture metadata (mergekit.architecture).  Every model has the     *)
(* same architecture; models differ in their number of layers.  A weight   *)
(* descriptor is <<kind, layer index, position>>, which stands for its     *)
(* name; the first pre weight is the embedding, the post weight is the     *)
(* output projection.                                                      *)
(***************************************************************************)
Models == {"A", "B", "C"}

num_layers(m) == IF m = "C" THEN MaxLayers - 1 ELSE MaxLayers

pre_weights(arch) == [j \in 1..arch.npre |-> <<"pre", 0, j>>]

layer_weights(index) == [j \in 1..LayerWeightCount |-> <<"layer", index, j>>]

post_weights(arch) == << <<"post", 0, 1>> >>

procedural_spaces(arch) == <<"space">>

is_embed(weight) == weight[1] = "pre" /\ weight[3] = 1

is_lm_head(weight) == weight[1] = "post"

(***************************************************************************)
(* Merge methods (mergekit.merge_methods): the declared global and tensor  *)
(* parameters, each with a name, a required flag and a default value.      *)
(***************************************************************************)
ParamDef(n, r, d) == [name |-> n, required |-> r, default_value |-> d]

MethodIds == {"linear", "passthrough", "weighted"}

merge_methods_get(id) ==
    CASE id = "linear" ->
            [id |-> id,
             parameters |-> <<ParamDef("normalize", FALSE, "yes")>>,
             tensor_parameters |-> <<ParamDef("weight", TRUE, None)>>]
      [] id = "weighted" ->
            [id |-> id,
             parameters |-> <<>>,
             tensor_parameters |-> <<ParamDef("weight", TRUE, "one"),
                                     ParamDef("density", FALSE, None)>>]
      [] OTHER ->
            [id |-> id, parameters |-> <<>>, tensor_parameters |-> <<>>]

TokenizerPermutationMerge ==
    [id |-> "tokenizer_permutation",
     parameters |-> <<ParamDef("t", FALSE, None),
                      ParamDef("embed_slerp", FALSE, "no")>>,
     tensor_parameters |-> <<ParamDef("weight", FALSE, None)>>]

(***************************************************************************)
(* Configuration objects (mergekit.config).  A parameters dictionary is a  *)
(* set of <<name, value>> pairs (None and the empty dictionary are {}).    *)
(* A list that may be None (config.models, config.slices) is a sequence,    *)
(* None being <<>>: the code only ever tests such a list for truthiness.   *)
(***************************************************************************)
InputSliceDefinition(m, lo, hi, params) ==
    [model |-> m, layer_range |-> <<lo, hi>>, parameters |-> params]

OutputSliceDefinition(srcs) == [sources |-> srcs]

InputModelDefinition(m, params) == [model |-> m, parameters |-> params]

HasKey(params, name) == \E kv \in params : kv[1] = name

Lookup(params, name) == (CHOOSE kv \in params : kv[1] = name)[2]

(* ConfigReader: the output slice in scope and the interpolation fraction t, *)
(* a rational <<numerator, denominator>>.                                    *)
ConfigReader(slice_out, t) == [slice_out |-> slice_out, t |-> t]

with_t(cfg_reader, t) == [cfg_reader EXCEPT !.t = t]

(* ConfigReader.parameter: the override of the acting model's source in the *)
(* slice in scope, then the global override, then the declared default; a   *)
(* required parameter that resolves to no value is an error.                *)
parameter(cfg_reader, config, name, model, required, default) ==
    LET srcs == cfg_reader.slice_out.sources
        hits == {i \in DOMAIN srcs :
                    srcs[i].model = model /\ HasKey(srcs[i].parameters, name)}
        first == CHOOSE i \in hits : \A j \in hits : i <= j
        value == IF model # None /\ hits # {}
                     THEN Lookup(srcs[first].parameters, name)
                 ELSE IF HasKey(config.parameters, name)
                     THEN Lookup(config.parameters, name)
                 ELSE default
    IN  [err |-> required /\ value = None, value |-> value]

(***************************************************************************)
(* Tasks (mergekit.io.tasks, mergekit.matching, mergekit.tokenizer).       *)
(* by and call stand for the identity of the SaveTensor object: the        *)
(* planner and the method call that constructed it.                        *)
(***************************************************************************)
LoadTensor(model, weight_in) ==
    [type |-> "LoadTensor", model |-> model, tensor |-> weight_in]

align_tensor(model, weight, task) ==
    [type |-> "AlignTensor", model |-> model, weight |-> weight, task |-> task]

SaveTensor(weight, tensor_task, by, call) ==
    [type |-> "SaveTensor", tensor_name |-> weight, tensor_task |-> tensor_task,
     by |-> by, call |-> call]

FinalizeModel(tasks) == [type |-> "FinalizeModel", tensor_save_tasks |-> tasks]

BuildTokenizer == [type |-> "BuildTokenizer"]

(***************************************************************************)
(* MergePlanner.__init__                                                   *)
(***************************************************************************)
SpacePlannerEnabled(config) ==
    config.base_model # None /\ config.align_weights

NewPlanner(config, arch) ==
    [config |-> config,
     method |-> merge_methods_get(config.merge_method),
     tokenizer_task |-> config.tokenizer_source,
     space_planner |-> [present |-> SpacePlannerEnabled(config),
                        spaces |-> <<>>, weights |-> <<>>],
     arch |-> arch,
     has_tasks |-> FALSE,     \* no instance attribute _tasks: lookups reach the class
     tasks |-> <<>>,
     current_layers |-> 0]

(***************************************************************************)
(* Evaluation record threaded through one method call: the class list,     *)
(* the instance, the pending exception and the trace of nested calls.      *)
(***************************************************************************)
Enter(p, op) ==
    [cls |-> cls, me |-> inst[p], err |-> None, by |-> p, call |-> calls + 1,
     op |-> op, config |-> inst[p].config, res |-> <<>>,
     tensors |-> <<>>, layers |-> <<>>, slices |-> <<>>]

(* self._tasks: the instance attribute when bound, else the class attribute *)
TasksOf(c, me) == IF me.has_tasks THEN me.tasks ELSE c

SelfTasks(w) == TasksOf(w.cls, w.me)

AppendTask(w, task) ==
    IF w.me.has_tasks
        THEN [w EXCEPT !.me.tasks = Append(@, task)]
        ELSE [w EXCEPT !.cls = Append(@, task)]

(***************************************************************************)
(* MergePlanner.plan_tensor                                                *)
(***************************************************************************)
Min(a, b) == IF a < b THEN a ELSE b

(* the method that merges this weight (lines 162-166) *)
TensorMergeMethod(me, weight) ==
    IF me.tokenizer_task /\ (is_embed(weight) \/ is_lm_head(weight))
        THEN TokenizerPermutationMerge
        ELSE me.method

IsBase(model, config) == model = config.base_model

(* faulty variant: the base model is not exempted *)
IsRequired_IgnoresBase(required, is_base) == required

(* the required flag handed to the resolver for a tensor parameter (line 184) *)
IsRequired(required, is_base) == required /\ ~is_base

(* the last position of a model in the zipped (model, weight) pairs: a      *)
(* dictionary keyed by model keeps the last value stored under the key      *)
LastIndex(models, n, m) ==
    CHOOSE i \in 1..n : models[i] = m /\ \A j \in 1..n : models[j] = m => j <= i

(* lines 191-198 *)
InputWeightTasks(models, weights_in, n) ==
    [m \in {models[i] : i \in 1..n} |->
        LoadTensor(m, weights_in[LastIndex(models, n, m)])]

(* faulty variant: the load tasks are not wrapped *)
WrapLoads_Unwrapped(space_planner, weight, input_weight_tasks) == input_weight_tasks

(* lines 200-204 *)
WrapLoads(space_planner, weight, input_weight_tasks) ==
    IF space_planner.present
        THEN [m \in DOMAIN input_weight_tasks |->
                 align_tensor(m, weight, input_weight_tasks[m])]
        ELSE input_weight_tasks

(* lines 188-189 *)
AddWeight(space_planner, weight, models, weights_in, n) ==
    IF space_planner.present
        THEN [space_planner EXCEPT !.weights =
                 Append(@, [weight |-> weight,
                            inputs |-> [i \in 1..n |-> <<models[i], weights_in[i]>>]])]
        ELSE space_planner

PlanTensor(w, weight, weights_in, models, cfg_reader) ==
    LET me == w.me
        config == me.config
        method == TensorMergeMethod(me, weight)
        gp == method.parameters
        tp == method.tensor_parameters
        gres == [k \in DOMAIN gp |->
                    parameter(cfg_reader, config, gp[k].name, None,
                              gp[k].required, gp[k].default_value)]
        gerr == \E k \in DOMAIN gp : gres[k].err
        n == Min(Len(models), Len(weights_in))
        tres == [i \in 1..n |-> [k \in DOMAIN tp |->
                    parameter(cfg_reader, config, tp[k].name, models[i],
                              IsRequired(tp[k].required, IsBase(models[i], config)),
                              tp[k].default_value)]]
        bad == {i \in 1..n : \E k \in DOMAIN tp : tres[i][k].err}
        failed == IF gerr THEN None
                  ELSE models[CHOOSE i \in bad : \A j \in bad : i <= j]
        event == [weight |-> weight, models |-> models, cfg_reader |-> cfg_reader,
                  method |-> method.id, err |-> None, failed |-> None]
        global_params == {<<gp[k].name, gres[k].value>> : k \in DOMAIN gp}
        tensor_params == [m \in {models[i] : i \in 1..n} |->
                             {<<tp[k].name, tres[LastIndex(models, n, m)][k].value>> :
                                 k \in DOMAIN tp}]
        sp == AddWeight(me.space_planner, weight, models, weights_in, n)
        tensors == WrapLoads(sp, weight, InputWeightTasks(models, weights_in, n))
        tensor_task == [method |-> method.id, output_weight |-> weight,
                        tensors |-> tensors, parameters |-> global_params,
                        tensor_parameters |-> tensor_params,
                        base_model |-> config.base_model]
        save_task == SaveTensor(weight, tensor_task, w.by, w.call)
    IN  IF w.err # None THEN w
        ELSE IF gerr \/ bad # {}
            THEN [w EXCEPT !.err = "missing parameter",
                           !.tensors = Append(@, [event EXCEPT !.err = "missing parameter",
                                                               !.failed = failed])]
        ELSE AppendTask([w EXCEPT !.me.space_planner = sp,
                                  !.tensors = Append(@, event)],
                        save_task)

(***************************************************************************)
(* MergePlanner.plan_layer                                                 *)
(***************************************************************************)
RECURSIVE PlanLayerWeights(_, _, _, _, _, _)
PlanLayerWeights(w, weights_out, weights_in, sources, cfg_reader, idx) ==
    IF idx > Len(weights_out) \/ w.err # None THEN w
    ELSE PlanLayerWeights(
             PlanTensor(w, weights_out[idx],
                        [j \in DOMAIN weights_in |-> weights_in[j][idx]],
                        [j \in DOMAIN sources |-> sources[j].model],
                        cfg_reader),
             weights_out, weights_in, sources, cfg_reader, idx + 1)

PlanLayer(w, sources, layer_offset, t, cfg_reader) ==
    LET weights_out == layer_weights(w.me.current_layers)
        weights_in == [j \in DOMAIN sources |->
                          layer_weights(sources[j].layer_range[1] + layer_offset)]
        w1 == PlanLayerWeights(w, weights_out, weights_in, sources,
                               with_t(cfg_reader, t), 1)
        event == [slice |-> Len(w.slices),
                  out_index |-> w.me.current_layers,
                  layer_offset |-> layer_offset,
                  t |-> t,
                  appended |-> Len(SelfTasks(w1)) - Len(SelfTasks(w)),
                  err |-> w1.err]
        w2 == [w1 EXCEPT !.layers = Append(@, event)]
    IN  IF w.err # None THEN w
        ELSE IF w1.err # None THEN w2
        ELSE [w2 EXCEPT !.me.current_layers = @ + 1]

(***************************************************************************)
(* MergePlanner.plan_slice                                                 *)
(***************************************************************************)
SliceLengths(definition) ==
    [j \in DOMAIN definition.sources |->
        definition.sources[j].layer_range[2] - definition.sources[j].layer_range[1]]

(* faulty variant: any(...) in place of all(...) *)
InconsistentLengths_Any(slice_lengths) ==
    ~(\E j \in DOMAIN slice_lengths : slice_lengths[j] = slice_lengths[1])

(* lines 259-262: the condition under which plan_slice raises *)
InconsistentLengths(slice_lengths) ==
    ~(\A j \in DOMAIN slice_lengths : slice_lengths[j] = slice_lengths[1])

(* faulty variant: the number of sources in place of the number of layers *)
NumLayersOf_Sources(slice_lengths) == Len(slice_lengths)

(* line 263 *)
NumLayersOf(slice_lengths) == slice_lengths[1]

(* faulty variant: division by num_layers in place of num_layers - 1 *)
InterpolationT_OverN(idx, n_layers) ==
    IF n_layers > 1 THEN <<idx, n_layers>> ELSE <<1, 1>>

(* lines 267-271: the interpolation fraction of layer idx of num_layers *)
InterpolationT(idx, n_layers) ==
    IF n_layers > 1 THEN <<idx, n_layers - 1>> ELSE <<1, 1>>

RECURSIVE PlanSliceLayers(_, _, _, _, _)
PlanSliceLayers(w, definition, cfg_reader, n_layers, idx) ==
    IF idx >= n_layers \/ w.err # None THEN w
    ELSE PlanSliceLayers(
             PlanLayer(w, definition.sources, idx,
                       InterpolationT(idx, n_layers), cfg_reader),
             definition, cfg_reader, n_layers, idx + 1)

PlanSlice(w, definition) ==
    LET slice_lengths == SliceLengths(definition)
        event == [definition |-> definition, err |-> None,
                  before |-> Len(SelfTasks(w))]
    IN  IF w.err # None THEN w
        ELSE IF InconsistentLengths(slice_lengths)
            THEN [w EXCEPT !.err = "slice lengths",
                           !.slices = Append(@, [event EXCEPT !.err = "slice lengths"])]
        ELSE PlanSliceLayers([w EXCEPT !.slices = Append(@, event)],
                             definition,
                             ConfigReader(definition, <<0, 1>>),
                             NumLayersOf(slice_lengths), 0)

(***************************************************************************)
(* MergePlanner.normalize_config                                           *)
(***************************************************************************)
(* lines 128-139: the slices of the listed models other than the base model *)
RECURSIVE ListedSlices(_, _)
ListedSlices(models, base) ==
    IF models = <<>> THEN <<>>
    ELSE LET model_in == Head(models)
             slice == InputSliceDefinition(model_in.model, 0,
                                           num_layers(model_in.model),
                                           model_in.parameters)
         IN  IF model_in.model = base
                 THEN ListedSlices(Tail(models), base)
                 ELSE <<slice>> \o ListedSlices(Tail(models), base)

(* lines 136-137, 141-147: the base model's slice, listed (the last listing *)
(* wins) or synthetic                                                       *)
BaseSlice(models, base) ==
    LET hits == {i \in DOMAIN models : models[i].model = base}
        lastHit == CHOOSE i \in hits : \A j \in hits : j <= i
    IN  IF hits # {}
            THEN InputSliceDefinition(base, 0, num_layers(base),
                                      models[lastHit].parameters)
            ELSE InputSliceDefinition(base, 0, num_layers(base), {})

(* faulty variant: the base model's slice is put last *)
NormalizedSources_BaseLast(models, base) ==
    IF base # None
        THEN ListedSlices(models, base) \o <<BaseSlice(models, base)>>
        ELSE ListedSlices(models, base)

(* lines 141-150 *)
NormalizedSources(models, base) ==
    IF base # None
        THEN <<BaseSlice(models, base)>> \o ListedSlices(models, base)
        ELSE ListedSlices(models, base)

(* faulty variant: the test of config.slices is left out *)
NormalizeConfig_NoCheck(w) ==
    LET config == w.me.config
    IN  IF w.err # None \/ config.models = <<>> THEN w
        ELSE [w EXCEPT
                 !.me.config.slices =
                     <<OutputSliceDefinition(
                         NormalizedSources(config.models, config.base_model))>>,
                 !.me.config.models = <<>>]

NormalizeConfig(w) ==
    LET config == w.me.config
    IN  IF w.err # None THEN w
        ELSE IF config.models # <<>>
            THEN IF config.slices # <<>>
                     THEN [w EXCEPT !.err = "models and slices"]
                     ELSE [w EXCEPT
                              !.me.config.slices =
                                  <<OutputSliceDefinition(
                                      NormalizedSources(config.models,
                                                        config.base_model))>>,
                              !.me.config.models = <<>>]
        ELSE w

(***************************************************************************)
(* MergePlanner.plan                                                       *)
(***************************************************************************)
(* faulty variant: the rebinding of self._tasks is left out *)
ResetTasks_Skipped(w) == w

(* line 282: self._tasks = [] binds a fresh list to the instance *)
ResetTasks(w) == [w EXCEPT !.me.has_tasks = TRUE, !.me.tasks = <<>>]

(* lines 284-286 *)
AddProceduralSpaces(w) ==
    IF w.me.space_planner.present
        THEN [w EXCEPT !.me.space_planner.spaces = @ \o procedural_spaces(w.me.arch)]
        ELSE w

SourceModels(definition) ==
    [j \in DOMAIN definition.sources |-> definition.sources[j].model]

(* lines 290-305 and 311-326: zip over the models' weight lists, which is   *)
(* empty when there is no model                                             *)
RECURSIVE PlanWeights(_, _, _, _, _)
PlanWeights(w, weights, models, cfg_reader, idx) ==
    IF idx > Len(weights) \/ models = <<>> \/ w.err # None THEN w
    ELSE PlanWeights(
             PlanTensor(w, weights[idx], [j \in DOMAIN models |-> weights[idx]],
                        models, cfg_reader),
             weights, models, cfg_reader, idx + 1)

RECURSIVE PlanSlices(_, _, _)
PlanSlices(w, slices, idx) ==
    IF idx > Len(slices) \/ w.err # None THEN w
    ELSE PlanSlices(PlanSlice(w, slices[idx]), slices, idx + 1)

(* lines 328-336 *)
Finalize(w) ==
    LET w1 == AppendTask(w, FinalizeModel(SelfTasks(w)))
        res == SelfTasks(w1)
    IN  IF w.err # None THEN w
        ELSE [w1 EXCEPT !.res = IF w.me.tokenizer_task
                                    THEN Append(res, BuildTokenizer)
                                    ELSE res]

PlanBody(w) ==
    LET w1 == AddProceduralSpaces(ResetTasks(w))
        slices == w1.me.config.slices
        first == slices[1]
        final == slices[Len(slices)]
        w2 == PlanWeights(w1, pre_weights(w1.me.arch), SourceModels(first),
                          ConfigReader(first, <<0, 1>>), 1)
        w3 == PlanSlices(w2, slices, 1)
        w4 == PlanWeights(w3, post_weights(w1.me.arch), SourceModels(final),
                          ConfigReader(final, <<1, 1>>), 1)
    IN  Finalize(w4)

Plan(w) ==
    LET w1 == NormalizeConfig(w)
    IN  IF w1.err # None THEN w1 ELSE PlanBody(w1)

(***************************************************************************)
(* The state machine: each action is one call of a public method on one    *)
(* planner, with its arguments taken from the planner's configuration.     *)
(***************************************************************************)
Return(p, w) ==
    /\ cls' = w.cls
    /\ inst' = [inst EXCEPT ![p] = w.me]
    /\ calls' = w.call
    /\ last' = [p |-> p, op |-> w.op, call |-> w.call, err |-> w.err,
                res |-> w.res, config |-> w.config,
                tensors |-> w.tensors, layers |-> w.layers, slices |-> w.slices]

CallNormalizeConfig(p) ==
    /\ calls < MaxCalls
    /\ Return(p, NormalizeConfig(Enter(p, "normalize_config")))

CallPlan(p) ==
    /\ calls < MaxCalls
    /\ Return(p, Plan(Enter(p, "plan")))

CallPlanSlice(p) ==
    /\ calls < MaxCalls
    /\ \E i \in DOMAIN inst[p].config.slices :
           Return(p, PlanSlice(Enter(p, "plan_slice"), inst[p].config.slices[i]))

CallPlanLayer(p) ==
    /\ calls < MaxCalls
    /\ inst[p].config.slices # <<>>
    /\ LET definition == inst[p].config.slices[Len(inst[p].config.slices)]
       IN  Return(p, PlanLayer(Enter(p, "plan_layer"), definition.sources, 0,
                               <<0, 1>>, ConfigReader(definition, <<0, 1>>)))

CallPlanTensor(p) ==
    /\ calls < MaxCalls
    /\ inst[p].config.slices # <<>>
    /\ LET definition == inst[p].config.slices[1]
           models == SourceModels(definition)
           weight == post_weights(inst[p].arch)[1]
       IN  Return(p, PlanTensor(Enter(p, "plan_tensor"), weight,
                                [j \in DOMAIN models |-> weight], models,
                                ConfigReader(definition, <<1, 1>>)))

(***************************************************************************)
(* Configurations the planners are constructed with                        *)
(***************************************************************************)
OverrideValue(m) == CASE m = "A" -> "wA" [] m = "B" -> "wB" [] OTHER -> "wC"

Overrides(m, ovr) == IF m \in ovr THEN {<<"weight", OverrideValue(m)>>} ELSE {}

Src(m, lo, hi, ovr) == InputSliceDefinition(m, lo, hi, Overrides(m, ovr))

Listed(m, ovr) == InputModelDefinition(m, Overrides(m, ovr))

Pair(lo1, hi1, lo2, hi2, ovr) ==
    OutputSliceDefinition(<<Src("A", lo1, hi1, ovr), Src("B", lo2, hi2, ovr)>>)

BodyIds == {"AB", "BA", "AC", "both", "full", "two", "empty", "bad1", "bad2", "solo"}

ShorthandIds == {"AB", "BA", "AC", "both"}

ModelsOf(id, ovr) ==
    CASE id \in {"AB", "both"} -> <<Listed("A", ovr), Listed("B", ovr)>>
      [] id = "BA" -> <<Listed("B", ovr), Listed("A", ovr)>>
      [] id = "AC" -> <<Listed("A", ovr), Listed("C", ovr)>>
      [] OTHER -> <<>>

SlicesOf(id, ovr) ==
    CASE id \in {"full", "both"} -> <<Pair(0, MaxLayers, 0, MaxLayers, ovr)>>
      [] id = "two" -> <<Pair(0, 1, 0, 1, ovr), Pair(0, MaxLayers, 0, MaxLayers, ovr)>>
      [] id = "empty" -> <<Pair(1, 1, 2, 2, ovr), Pair(0, MaxLayers - 1, 1, MaxLayers, ovr)>>
      [] id = "bad1" -> <<Pair(0, 1, 0, 2, ovr), Pair(0, 1, 0, 1, ovr)>>
      [] id = "bad2" -> <<Pair(0, 1, 0, 1, ovr), Pair(0, 2, 1, 2, ovr)>>
      [] id = "solo" -> <<OutputSliceDefinition(<<Src("A", 0, MaxLayers, ovr)>>)>>
      [] OTHER -> <<>>

MergeConfiguration(method, base, align, tok, ovr, glob, id) ==
    [merge_method |-> method, base_model |-> base, align_weights |-> align,
     tokenizer_source |-> tok, parameters |-> glob,
     models |-> ModelsOf(id, ovr), slices |-> SlicesOf(id, ovr)]

Bases == Models \cup {None}

OverrideSets == {{}, {"B"}, Models}

GlobalOverride == {<<"weight", "g">>}

(* layer structure, number of pre weights, tokenizer task *)
StructureConfigs ==
    {MergeConfiguration("passthrough", None, FALSE, tok, {}, {}, id) :
        tok \in BOOLEAN, id \in BodyIds}

(* required parameters, overrides and the base model *)
ParameterConfigs ==
    {MergeConfiguration(method, base, FALSE, FALSE, ovr, {}, id) :
        method \in {"linear", "weighted"}, base \in {None, "A", "C"},
        ovr \in OverrideSets, id \in {"AB", "bad2"}}
    \cup {MergeConfiguration("linear", base, FALSE, tok, {}, GlobalOverride, "AB") :
        base \in {None, "A"}, tok \in BOOLEAN}
    \cup {MergeConfiguration("linear", base, FALSE, TRUE, ovr, {}, "two") :
        base \in {None, "A"}, ovr \in {{}, {"B"}}}

(* alignment *)
AlignmentConfigs ==
    {MergeConfiguration("passthrough", base, TRUE, tok, {}, {}, id) :
        base \in Bases, tok \in BOOLEAN, id \in {"AB", "two"}}

(* the shorthand form *)
ShorthandConfigs ==
    {MergeConfiguration("passthrough", base, FALSE, FALSE, ovr, {}, id) :
        base \in Bases, ovr \in OverrideSets, id \in ShorthandIds}

WideConfigs ==
    StructureConfigs \cup ParameterConfigs \cup AlignmentConfigs \cup ShorthandConfigs

PairConfigs ==
    {MergeConfiguration("passthrough", None, FALSE, TRUE, {}, {}, "two"),
     MergeConfiguration("linear", "A", TRUE, FALSE, {"B"}, {}, "BA"),
     MergeConfiguration("passthrough", None, FALSE, FALSE, {}, {}, "bad2")}

ConfigPairs ==
    (WideConfigs \X {MergeConfiguration("passthrough", None, FALSE, FALSE, {}, {}, "full")})
    \cup (PairConfigs \X PairConfigs)

Archs == {[npre |-> n] : n \in 0..MaxPre}

Init ==
    /\ cls = <<>>
    /\ calls = 0
    /\ \E cp \in ConfigPairs, arch \in Archs :
           inst = [p \in Planners |->
                      NewPlanner(IF p = "P1" THEN cp[1] ELSE cp[2], arch)]
    /\ last = [p |-> None, op |-> "init", call |-> 0, err |-> None, res |-> <<>>,
               config |-> inst["P1"].config,
               tensors |-> <<>>, layers |-> <<>>, slices |-> <<>>]

Next ==
    \E p \in Planners :
        \/ CallNormalizeConfig(p)
        \/ CallPlan(p)
        \/ CallPlanSlice(p)
        \/ CallPlanLayer(p)
        \/ CallPlanTensor(p)

Spec == Init /\ [][Next]_vars

(***************************************************************************)
(* Properties                                                              *)
(***************************************************************************)
IsPlan == last.op = "plan"

Me == inst[last.p]

IndicesOfType(tasks, type) == {i \in DOMAIN tasks : tasks[i].type = type}

(* every list a task can sit in *)
AllLists == {cls} \cup {inst[p].tasks : p \in Planners}

(* the save tasks that planner p constructed and that some list still holds *)
SavesBuiltBy(p) ==
    UNION {{l[i] : i \in {j \in DOMAIN l : l[j].type = "SaveTensor" /\ l[j].by = p}} :
              l \in AllLists}

CommonLength(definition) == SliceLengths(definition)[1]

Inconsistent(definition) ==
    \E i, j \in DOMAIN definition.sources :
        SliceLengths(definition)[i] # SliceLengths(definition)[j]

(* rationals <<numerator, denominator>> with positive denominators *)
RatLess(a, b) == a[1] * b[2] < b[1] * a[2]

RatEq(a, b) == a[1] * b[2] = b[1] * a[2]

(* C1: a successful plan() returns a list with exactly one FinalizeModel   *)
(* task; every SaveTensor task precedes it and only the tokenizer-build    *)
(* task may follow it; its tensor_save_tasks are exactly the save tasks    *)
(* built by that plan() call, one per planned tensor and in planning       *)
(* order, none of them from an earlier call or another planner.            *)
C1_FinalizeCoversThisPlan ==
    (IsPlan /\ last.err = None) =>
        LET res == last.res
            fins == IndicesOfType(res, "FinalizeModel")
            f == CHOOSE i \in fins : TRUE
        IN  /\ Cardinality(fins) = 1
            /\ \A i \in DOMAIN res :
                   /\ i < f => /\ res[i].type = "SaveTensor"
                               /\ res[i].by = last.p
                               /\ res[i].call = last.call
                   /\ i > f => res[i].type = "BuildTokenizer"
            /\ res[f].tensor_save_tasks = SubSeq(res, 1, f - 1)
            /\ f - 1 = Len(last.tensors)
            /\ \A i \in 1..(f - 1) : res[i].tensor_name = last.tensors[i].weight
            /\ \A t \in SavesBuiltBy(last.p) :
                   t.call = last.call => \E i \in 1..(f - 1) : res[i] = t

C1_Witness ==
    /\ IsPlan /\ last.err = None
    /\ cls # <<>>
    /\ Len(last.res) > 3
    /\ last.res[Len(last.res)].type = "BuildTokenizer"

(* C2 as claimed: when plan() fails with the inconsistent-slice-lengths    *)
(* error, no save task has been built in that plan() call, whichever       *)
(* position the inconsistent slice has and however many pre weights the    *)
(* architecture declares.                                                  *)
C2_SliceErrorBeforeAnyTask ==
    (IsPlan /\ last.err = "slice lengths") =>
        /\ last.tensors = <<>>
        /\ Me.tasks = <<>>

FirstInconsistent(slices) ==
    CHOOSE i \in DOMAIN slices :
        /\ Inconsistent(slices[i])
        /\ \A j \in 1..(i - 1) : ~Inconsistent(slices[j])

(* C2 amended: with an inconsistent output slice, plan() never succeeds;   *)
(* when it fails with the inconsistent-slice-lengths error, the error is   *)
(* raised for the first inconsistent slice before any layer pass of that   *)
(* slice, of a later slice or any post weight is planned, and the save     *)
(* tasks built so far are those of the pre weights and of the slices       *)
(* before it.                                                              *)
C2_SliceErrorBeforeItsOwnTasks ==
    (IsPlan /\ \E i \in DOMAIN Me.config.slices : Inconsistent(Me.config.slices[i])) =>
        LET slices == Me.config.slices
            bad == FirstInconsistent(slices)
            earlier == [j \in 1..(bad - 1) |->
                           CommonLength(slices[j]) * LayerWeightCount]
        IN  /\ last.err # None
            /\ last.err = "slice lengths" =>
                   /\ Len(last.slices) = bad
                   /\ last.slices[bad].definition = slices[bad]
                   /\ last.slices[bad].err = "slice lengths"
                   /\ \A k \in DOMAIN last.layers : last.layers[k].slice < bad
                   /\ \A k \in DOMAIN last.tensors : last.tensors[k].weight[1] # "post"
                   /\ Len(Me.tasks) = Len(pre_weights(Me.arch)) + SumSeq(earlier)
                   /\ \A i \in DOMAIN Me.tasks : Me.tasks[i].type = "SaveTensor"

C2_Witness ==
    /\ IsPlan /\ last.err = "slice lengths"
    /\ Len(last.slices) = 2
    /\ Len(last.tensors) > Len(last.layers)
    /\ last.layers # <<>>

(* C3: when both the shorthand model list and the slice list are set,      *)
(* normalize_config() and plan() fail with the configuration error and     *)
(* leave the configuration and every task list as they were.               *)
C3_BothFormsRejected ==
    [][\A p \in Planners :
          (/\ inst[p].config.models # <<>>
           /\ inst[p].config.slices # <<>>
           /\ last'.p = p
           /\ last'.call = calls + 1
           /\ last'.op \in {"normalize_config", "plan"})
          => /\ last'.err = "models and slices"
             /\ inst' = inst
             /\ cls' = cls
             /\ last'.res = <<>>]_vars

C3_Witness ==
    /\ IsPlan
    /\ last.err = "models and slices"
    /\ Me.config.models # <<>> /\ Me.config.slices # <<>>

PassesOf(i) == {k \in DOMAIN last.layers : last.layers[k].slice = i}

(* C4: plan_slice() on a slice of common length L runs exactly L layer     *)
(* passes when it completes (never more when a pass fails), at offsets     *)
(* 0..L-1, and every completed pass appends one save task per weight the   *)
(* output architecture declares at the output layer of that pass; for      *)
(* L = 0 there is no pass and no task.                                     *)
C4_PassesPerSlice ==
    \A i \in DOMAIN last.slices :
        LET L == CommonLength(last.slices[i].definition)
            passes == PassesOf(i)
        IN  (last.slices[i].err = None) =>
              /\ Cardinality(passes) <= L
              /\ last.err = None => Cardinality(passes) = L
              /\ {last.layers[k].layer_offset : k \in passes}
                     = 0..(Cardinality(passes) - 1)
              /\ \A k \in passes :
                     last.layers[k].err = None =>
                         last.layers[k].appended
                             = Len(layer_weights(last.layers[k].out_index))
              /\ (L = 0 /\ i = Len(last.slices) /\ last.op = "plan_slice") =>
                     /\ last.tensors = <<>>
                     /\ last.err = None

C4_Witness ==
    /\ IsPlan /\ last.err = None
    /\ Len(last.slices) = 2
    /\ CommonLength(last.slices[1].definition) = 0
    /\ Cardinality(PassesOf(2)) = MaxLayers - 1
    /\ Len(last.tensors) > LayerWeightCount

(* C5: the fraction t handed to the pass at offset idx of a slice of       *)
(* common length N is 1 when N = 1 and idx/(N-1) when N > 1; within a      *)
(* slice it starts at 0 (N > 1), grows strictly from pass to pass, stays   *)
(* in [0,1] and is 1 at the last offset.                                   *)
C5_InterpolationFraction ==
    \A k \in DOMAIN last.layers :
        LET e == last.layers[k]
            N == CommonLength(last.slices[e.slice].definition)
        IN  e.slice >= 1 =>
              /\ e.t[2] > 0
              /\ N = 1 => RatEq(e.t, <<1, 1>>)
              /\ N > 1 => RatEq(e.t, <<e.layer_offset, N - 1>>)
              /\ ~RatLess(e.t, <<0, 1>>) /\ ~RatLess(<<1, 1>>, e.t)
              /\ (e.layer_offset = 0 /\ N > 1) => RatEq(e.t, <<0, 1>>)
              /\ e.layer_offset = N - 1 => RatEq(e.t, <<1, 1>>)
              /\ (k + 1 \in DOMAIN last.layers /\ last.layers[k + 1].slice = e.slice) =>
                     /\ last.layers[k + 1].layer_offset = e.layer_offset + 1
                     /\ RatLess(e.t, last.layers[k + 1].t)

C5_Witness ==
    /\ IsPlan /\ last.err = None
    /\ \E k \in DOMAIN last.layers :
           /\ last.layers[k].slice >= 1
           /\ RatLess(<<0, 1>>, last.layers[k].t)
           /\ RatLess(last.layers[k].t, <<1, 1>>)
    /\ \E i \in DOMAIN last.slices : CommonLength(last.slices[i].definition) = 1

MethodById(id) ==
    IF id = "tokenizer_permutation" THEN TokenizerPermutationMerge
    ELSE merge_methods_get(id)

(* the tensor parameters of the method that are required and have no default *)
RequiredNoDefault(id) ==
    {d.name : d \in {x \in Range(MethodById(id).tensor_parameters) :
                        x.required /\ x.default_value = None}}

(* model m has no override of parameter name at any scope *)
NoOverride(e, m, name) ==
    /\ \A s \in Range(e.cfg_reader.slice_out.sources) :
           s.model = m => \A kv \in s.parameters : kv[1] # name
    /\ \A kv \in last.config.parameters : kv[1] # name

Lacking(e) ==
    {i \in DOMAIN e.models :
        \E name \in RequiredNoDefault(e.method) : NoOverride(e, e.models[i], name)}

(* C6: in plan_tensor(), a required tensor parameter without override at   *)
(* any scope and without default makes planning fail when the source model *)
(* is not config.base_model (the first such model is the one reported),    *)
(* and resolves without error for the base model; with no base model       *)
(* declared (base = None equals no model) no source model is exempt.       *)
C6_BaseModelExemption ==
    \A k \in DOMAIN last.tensors :
        LET e == last.tensors[k]
            base == last.config.base_model
            lacking == Lacking(e)
            failing == {i \in lacking : e.models[i] # base}
        IN  /\ failing # {} =>
                /\ e.err = "missing parameter"
                /\ e.failed = e.models[CHOOSE i \in failing : \A j \in failing : i <= j]
                /\ last.err = "missing parameter"
            /\ failing = {} => e.err = None

C6_Witness ==
    /\ last.err = None
    /\ \E k \in DOMAIN last.tensors :
           LET e == last.tensors[k]
           IN  /\ e.err = None
               /\ \E i \in Lacking(e) : e.models[i] = last.config.base_model
               /\ Len(e.models) > 1

ListedBase(models, base) == \E i \in DOMAIN models : models[i].model = base

(* C7: normalize_config() on a shorthand configuration yields one output   *)
(* slice and clears the shorthand list; with a base model declared its     *)
(* full-depth slice is source 1, synthetic and without overrides if the    *)
(* base model was not listed; the other listed models follow in listing    *)
(* order, one full-depth slice each with that model's overrides; with no   *)
(* base model the sources follow the listing order exactly.                *)
C7_BaseModelFirst ==
    (/\ last.op \in {"normalize_config", "plan"}
     /\ last.config.models # <<>>
     /\ last.config.slices = <<>>) =>
        LET listed == last.config.models
            base == last.config.base_model
            NotBase(x) == x.model # base
            others == SelectSeq(listed, NotBase)
            off == IF base = None THEN 0 ELSE 1
            src == Me.config.slices[1].sources
        IN  /\ Me.config.models = <<>>
            /\ Len(Me.config.slices) = 1
            /\ Len(src) = off + Len(others)
            /\ \A j \in DOMAIN others :
                   src[off + j] = [model |-> others[j].model,
                                   layer_range |-> <<0, num_layers(others[j].model)>>,
                                   parameters |-> others[j].parameters]
            /\ base # None =>
                   /\ src[1].model = base
                   /\ src[1].layer_range = <<0, num_layers(base)>>
                   /\ ~ListedBase(listed, base) => src[1].parameters = {}
                   /\ ListedBase(listed, base) =>
                          \E i \in DOMAIN listed :
                              /\ listed[i].model = base
                              /\ src[1].parameters = listed[i].parameters
            /\ base = None =>
                   [j \in DOMAIN src |-> src[j].model]
                       = [j \in DOMAIN listed |-> listed[j].model]

C7_Witness ==
    /\ last.op = "normalize_config"
    /\ last.config.models # <<>> /\ last.config.slices = <<>>
    /\ last.config.base_model # None
    /\ ~ListedBase(last.config.models, last.config.base_model)
    /\ Len(Me.config.slices[1].sources) = 3
    /\ Me.config.slices[1].sources[3].parameters # {}

Wrapped(t, weight) ==
    \A m \in DOMAIN t.tensor_task.tensors :
        LET x == t.tensor_task.tensors[m]
        IN  /\ x.type = "AlignTensor"
            /\ x.model = m
            /\ x.weight = weight
            /\ x.task.type = "LoadTensor"
            /\ x.task.model = m

Bare(t) ==
    \A m \in DOMAIN t.tensor_task.tensors :
        /\ t.tensor_task.tensors[m].type = "LoadTensor"
        /\ t.tensor_task.tensors[m].model = m

Registered(p, weight) ==
    \E i \in DOMAIN inst[p].space_planner.weights :
        inst[p].space_planner.weights[i].weight = weight

(* C8 as claimed: whenever align_weights is set, with or without a base    *)
(* model, every load task of every save task is wrapped by an alignment    *)
(* task and the output weight is registered with the accumulator.          *)
C8_AlignmentWrapsAlways ==
    \A p \in Planners :
        inst[p].config.align_weights =>
            \A t \in SavesBuiltBy(p) :
                Wrapped(t, t.tensor_name) /\ Registered(p, t.tensor_name)

(* C8 amended: a planner whose configuration sets align_weights and        *)
(* declares a base model wraps every load task by an alignment task and    *)
(* registers the output weight with the accumulator; every other planner,  *)
(* also one with align_weights set and no base model, has no accumulator   *)
(* and leaves its load tasks unwrapped.                                    *)
C8_AlignmentNeedsBaseModel ==
    \A p \in Planners :
        \A t \in SavesBuiltBy(p) :
            IF inst[p].config.align_weights /\ inst[p].config.base_model # None
                THEN Wrapped(t, t.tensor_name) /\ Registered(p, t.tensor_name)
                ELSE Bare(t) /\ inst[p].space_planner.weights = <<>>

C8_Witness ==
    /\ IsPlan /\ last.err = None
    /\ Me.config.align_weights /\ Me.config.base_model # None
    /\ Len(Me.space_planner.weights) > LayerWeightCount
    /\ \E t \in SavesBuiltBy(last.p) : Cardinality(DOMAIN t.tensor_task.tensors) > 1

(* C9: a save task appended through one planner never appears in the task *)
(* list of another planner.                                                *)
C9_TaskListsInstanceScoped ==
    \A p, q \in Planners :
        p # q =>
            \A i \in DOMAIN TasksOf(cls, inst[q]) :
                TasksOf(cls, inst[q])[i].type = "SaveTensor"
                    => TasksOf(cls, inst[q])[i].by # p

(* C10: in every plan() call the k-th layer pass (k from 0) uses output    *)
(* layer index k.                                                          *)
C10_LayerIndexRestartsPerPlan ==
    IsPlan =>
        \A k \in DOMAIN last.layers : last.layers[k].out_index = k - 1

====
